---- MODULE Spec2Model ----
(***************************************************************************)
(* The HTTP facade of server.ts over the budgeting backend: the startup    *)
(* sequence (init, downloadBudget), app.listen, and the four handlers      *)
(* /api/accounts, /api/budget, /api/categories and /api/transaction, with  *)
(* the zod schemas of src/models that the handlers validate against.       *)
(*                                                                         *)
(* Values that cross a boundary (collaborator data, request bodies, query  *)
(* parameters) are untyped: each is a record [kind, val] naming its        *)
(* JavaScript type.  Strings the code inspects (names, dates, ids of the   *)
(* transaction request) are sequences of one-character strings.  Decimal   *)
(* amounts are counted in thousandths of a major unit, so that an amount   *)
(* with more decimals than the minor unit can be written.                  *)
(***************************************************************************)
EXTENDS Integers, Sequences, FiniteSets, TLC

VARIABLES
    startup,        \* position of the startup async IIFE
    listening,      \* app.listen has been called and the process is alive
    route,          \* the handler serving the request in flight, or "none"
    pc,             \* "idle", "awaiting" (the collaborator call), "done"
    input,          \* req.query.categoryName or req.body of the request
    collab,         \* the collaborator calls made for the request
    raw,            \* what the collaborator call returned, or Thrown
    categoryBudget, \* the local of the budget handler's category scan
    responses,      \* the responses sent for the request
    conv            \* a conversion in progress: minor units -> amount -> minor units

vars == <<startup, listening, route, pc, input, collab, raw, categoryBudget,
          responses, conv>>

(***************************************************************************)
(* Bounds of the model.                                                    *)
(***************************************************************************)
MaxGroups == 2
MaxCategories == 3
MaxAccounts == 2
MaxMinor == 120

(***************************************************************************)
(* Untyped values.                                                         *)
(***************************************************************************)
Str(s) == [kind |-> "string", val |-> s]
Num(n) == [kind |-> "number", val |-> n]
Bool(b) == [kind |-> "boolean", val |-> b]
Arr(s) == [kind |-> "array", val |-> s]
Obj(r) == [kind |-> "object", val |-> r]
NaN == [kind |-> "number", nonfinite |-> "NaN"]
Infinity == [kind |-> "number", nonfinite |-> "Infinity"]
Undefined == [kind |-> "undefined"]
Thrown == [kind |-> "thrown"]

Without(r, f) == [k \in DOMAIN r \ {f} |-> r[k]]
With(r, f, v) == [k \in DOMAIN r \cup {f} |-> IF k = f THEN v ELSE r[k]]

(***************************************************************************)
(* Strings: String.prototype.toLowerCase and the date pattern.             *)
(***************************************************************************)
UpperToLower ==
    [R |-> "r", E |-> "e", N |-> "n", T |-> "t", G |-> "g", A |-> "a", S |-> "s"]

toLowerCaseChar(c) == IF c \in DOMAIN UpperToLower THEN UpperToLower[c] ELSE c

toLowerCase(s) == [i \in 1..Len(s) |-> toLowerCaseChar(s[i])]

Digits == {"0", "1", "2", "3", "4", "5", "6", "7", "8", "9"}

\* the pattern, had it also bounded the month and the day
DatePattern_Calendar(s) ==
    /\ Len(s) = 10
    /\ \A i \in 1..10 : IF i \in {5, 8} THEN s[i] = "-" ELSE s[i] \in Digits
    /\ s[6] = "0" \/ (s[6] = "1" /\ s[7] \in {"0", "1", "2"})
    /\ s[9] \in {"0", "1", "2"} \/ (s[9] = "3" /\ s[10] \in {"0", "1"})

\* /^\d{4}-\d{2}-\d{2}$/
DatePattern(s) ==
    /\ Len(s) = 10
    /\ \A i \in 1..10 : IF i \in {5, 8} THEN s[i] = "-" ELSE s[i] \in Digits

(***************************************************************************)
(* zod primitives: each is the success of safeParse on an untyped value.   *)
(***************************************************************************)
zString(v) == v.kind = "string"
zNumber(v) == v.kind = "number" /\ ("nonfinite" \in DOMAIN v => v.nonfinite # "NaN")
zFinite(v) == v.kind = "number" /\ "nonfinite" \notin DOMAIN v
zBoolean(v) == v.kind = "boolean"
zLiteral(v, b) == v.kind = "boolean" /\ v.val = b
\* z.string() without .min(1)
zMin1_AnyString(v) == v.kind = "string"
zMin1(v) == v.kind = "string" /\ Len(v.val) >= 1
zRegexDate(v) == v.kind = "string" /\ DatePattern(v.val)

\* a key of an object handed to z.object: a missing key reads as undefined
Key(o, f) == IF f \in DOMAIN o.val THEN o.val[f] ELSE Undefined

\* z.object strips the keys the schema does not name
Strip(o, fields) == Obj([k \in fields |-> o.val[k]])

(***************************************************************************)
(* models/Account.ts                                                       *)
(***************************************************************************)
AccountFields == {"id", "name", "type", "balance", "offbudget", "closed"}

Account(v) ==
    /\ v.kind = "object"
    /\ zString(Key(v, "id"))
    /\ zString(Key(v, "name"))
    /\ zString(Key(v, "type"))
    /\ zNumber(Key(v, "balance"))
    /\ zBoolean(Key(v, "offbudget"))
    /\ zBoolean(Key(v, "closed"))

\* z.array(Account).safeParse(accountsData)
AccountArray(v) == v.kind = "array" /\ \A i \in 1..Len(v.val) : Account(v.val[i])

AccountArrayData(v) == [i \in 1..Len(v.val) |-> Strip(v.val[i], AccountFields)]

(***************************************************************************)
(* models/Category.ts                                                      *)
(***************************************************************************)
ExpenseFields == {"id", "name", "is_income", "hidden", "budgeted", "spent", "balance"}
RevenueFields == {"id", "name", "is_income", "hidden", "received"}

ExpenseCategory(v) ==
    /\ zString(Key(v, "id"))
    /\ zString(Key(v, "name"))
    /\ zLiteral(Key(v, "is_income"), FALSE)
    /\ zBoolean(Key(v, "hidden"))
    /\ zNumber(Key(v, "budgeted"))
    /\ zNumber(Key(v, "spent"))
    /\ zNumber(Key(v, "balance"))

RevenueCategory(v) ==
    /\ zString(Key(v, "id"))
    /\ zString(Key(v, "name"))
    /\ zLiteral(Key(v, "is_income"), TRUE)
    /\ zBoolean(Key(v, "hidden"))
    /\ zNumber(Key(v, "received"))

\* z.discriminatedUnion('is_income', [ExpenseCategory, RevenueCategory])
CategoryZ(v) ==
    /\ v.kind = "object"
    /\ "is_income" \in DOMAIN v.val
    /\ v.val.is_income.kind = "boolean"
    /\ IF v.val.is_income.val THEN RevenueCategory(v) ELSE ExpenseCategory(v)

CategoryZData(v) ==
    IF v.val.is_income.val THEN Strip(v, RevenueFields) ELSE Strip(v, ExpenseFields)

CategoryArray(v) == v.kind = "array" /\ \A i \in 1..Len(v.val) : CategoryZ(v.val[i])

CategoryGroupSchema(v) ==
    /\ v.kind = "object"
    /\ zString(Key(v, "id"))
    /\ zString(Key(v, "name"))
    /\ CategoryArray(Key(v, "categories"))

CategoryGroupData(v) ==
    [id |-> v.val.id, name |-> v.val.name,
     categories |-> [i \in 1..Len(v.val.categories.val) |->
                        CategoryZData(v.val.categories.val[i])]]

CategoryGroupArray(v) ==
    v.kind = "array" /\ \A i \in 1..Len(v.val) : CategoryGroupSchema(v.val[i])

(***************************************************************************)
(* models/Budget.ts                                                        *)
(***************************************************************************)
BudgetTotals ==
    {"incomeAvailable", "lastMonthOverspent", "forNextMonth", "totalBudgeted",
     "toBudget", "fromLastMonth", "totalIncome", "totalSpent", "totalBalance"}

BudgetMonthSchema(v) ==
    /\ v.kind = "object"
    /\ zString(Key(v, "month"))
    /\ \A f \in BudgetTotals : zNumber(Key(v, f))
    /\ CategoryGroupArray(Key(v, "categoryGroups"))

\* budgetValidation.data: the handlers read categoryGroups only
BudgetMonthData(v) ==
    [month |-> v.val.month,
     categoryGroups |-> [i \in 1..Len(v.val.categoryGroups.val) |->
                            CategoryGroupData(v.val.categoryGroups.val[i])]]

(***************************************************************************)
(* models/Transaction.ts                                                   *)
(***************************************************************************)
TransactionFields == <<"accountId", "date", "description", "amount", "categoryId">>

TransactionFieldOk(body, f) ==
    CASE f = "accountId" -> zMin1(Key(body, f))
      [] f = "date" -> zRegexDate(Key(body, f))
      [] f = "description" -> zMin1(Key(body, f))
      [] f = "amount" -> zFinite(Key(body, f))
      [] f = "categoryId" -> zMin1(Key(body, f))

CreateTransactionRequestSchema(body) ==
    /\ body.kind = "object"
    /\ \A i \in 1..Len(TransactionFields) : TransactionFieldOk(body, TransactionFields[i])

\* validationResult.error.issues: the path of every failing key, in schema order
CreateTransactionIssues(body) ==
    IF body.kind # "object" THEN <<"">>
    ELSE SelectSeq(TransactionFields, LAMBDA f : ~TransactionFieldOk(body, f))

(***************************************************************************)
(* utils.integerToAmount and utils.amountToInteger of the backend's client *)
(* library, at 100 minor units per major unit.  An amount is counted in    *)
(* thousandths: n minor units are n/100 = 10n/1000, and an amount a is     *)
(* Math.round(a * 100) minor units, Math.round rounding halves upwards.    *)
(***************************************************************************)
\* the conversion by an integer division, which drops the minor units
integerToAmount_WholeUnits(n) == (n \div 100) * 1000

integerToAmount(n) == n * 10

amountToInteger(a) == (a + 5) \div 10

(***************************************************************************)
(* GET /api/accounts, after the await.                                     *)
(***************************************************************************)
Response(status, body) == [status |-> status, body |-> body]

\* the validation branch without its return
AccountsRespond_NoReturn(accountsData) ==
    IF accountsData.kind = "thrown"
    THEN << Response(500, [error |-> <<"Failed to fetch accounts">>]) >>
    ELSE IF ~AccountArray(accountsData)
    THEN << Response(500, [error |-> <<"Invalid account data received from API">>]),
            Response(200, [accounts |-> <<>>]) >>
    ELSE << Response(200, [accounts |-> AccountArrayData(accountsData)]) >>

AccountsRespond(accountsData) ==
    IF accountsData.kind = "thrown"
    THEN << Response(500, [error |-> <<"Failed to fetch accounts">>]) >>
    ELSE IF ~AccountArray(accountsData)
    THEN << Response(500, [error |-> <<"Invalid account data received from API">>]) >>
    ELSE << Response(200, [accounts |-> AccountArrayData(accountsData)]) >>

(***************************************************************************)
(* GET /api/budget: the scan for the category, and the response.           *)
(***************************************************************************)
\* group.categories.find(cat => cat.name.toLowerCase() === categoryName.toLowerCase())
RECURSIVE ArrayFind(_, _, _)
ArrayFind(categories, categoryName, i) ==
    IF i > Len(categories) THEN Undefined
    ELSE IF toLowerCase(categories[i].val.name.val) = toLowerCase(categoryName)
    THEN categories[i]
    ELSE ArrayFind(categories, categoryName, i + 1)

\* the loop without its break: a later group's match replaces an earlier one
RECURSIVE ScanGroups_NoBreak(_, _, _)
ScanGroups_NoBreak(categoryGroups, categoryName, g) ==
    IF g > Len(categoryGroups) THEN Undefined
    ELSE LET later == ScanGroups_NoBreak(categoryGroups, categoryName, g + 1)
         IN  IF later.kind # "undefined" THEN later
             ELSE ArrayFind(categoryGroups[g].categories, categoryName, 1)

\* for (const group of budgetData.categoryGroups) { ... if (found) { ...; break } }
RECURSIVE ScanGroups(_, _, _)
ScanGroups(categoryGroups, categoryName, g) ==
    IF g > Len(categoryGroups) THEN Undefined
    ELSE LET found == ArrayFind(categoryGroups[g].categories, categoryName, 1)
         IN  IF found.kind # "undefined" THEN found
             ELSE ScanGroups(categoryGroups, categoryName, g + 1)

\* the value of the local categoryBudget when the handler responds
BudgetScan(categoryName, budgetDataRaw) ==
    IF budgetDataRaw.kind = "thrown" \/ ~BudgetMonthSchema(budgetDataRaw) THEN Undefined
    ELSE ScanGroups(BudgetMonthData(budgetDataRaw).categoryGroups, categoryName, 1)

NotFoundResponse(categoryName) ==
    Response(404, [error |-> <<"Budget data for category ", categoryName, " not found">>])

\* the 404 test without its is_income half: an income category has no amounts
BudgetAnswer_IgnoresVariant(categoryName, found) ==
    IF found.kind = "undefined"
    THEN NotFoundResponse(categoryName)
    ELSE Response(200,
             [categoryId |-> found.val.id.val, categoryName |-> found.val.name.val])

\* an income match answered with an error of its own
BudgetAnswer_WrongVariant(categoryName, found) ==
    IF found.kind = "undefined"
    THEN NotFoundResponse(categoryName)
    ELSE IF found.val.is_income.val
    THEN Response(404, [error |-> <<"Category ", categoryName, " is an income category">>])
    ELSE Response(200,
             [categoryId |-> found.val.id.val,
              categoryName |-> found.val.name.val,
              budgeted |-> integerToAmount(found.val.budgeted.val),
              spent |-> integerToAmount(found.val.spent.val),
              balance |-> integerToAmount(found.val.balance.val)])

\* if (!categoryBudget || categoryBudget.is_income) 404, else the three amounts
BudgetAnswer(categoryName, found) ==
    IF found.kind = "undefined" \/ found.val.is_income.val
    THEN NotFoundResponse(categoryName)
    ELSE Response(200,
             [categoryId |-> found.val.id.val,
              categoryName |-> found.val.name.val,
              budgeted |-> integerToAmount(found.val.budgeted.val),
              spent |-> integerToAmount(found.val.spent.val),
              balance |-> integerToAmount(found.val.balance.val)])

BudgetRespond(categoryName, budgetDataRaw) ==
    IF budgetDataRaw.kind = "thrown"
    THEN << Response(500, [error |-> <<"Internal server error">>]) >>
    ELSE IF ~BudgetMonthSchema(budgetDataRaw)
    THEN << Response(500, [error |-> <<"Invalid budget data received from API">>]) >>
    ELSE << BudgetAnswer(categoryName, BudgetScan(categoryName, budgetDataRaw)) >>

(***************************************************************************)
(* GET /api/categories: categoryGroups.map(g => g.categories.map(...)).flat() *)
(***************************************************************************)
CategoryInfo(category) ==
    IF category.val.is_income.val
    THEN [id |-> category.val.id.val, name |-> category.val.name.val,
          received |-> integerToAmount(category.val.received.val)]
    ELSE [id |-> category.val.id.val, name |-> category.val.name.val,
          balance |-> integerToAmount(category.val.balance.val)]

MapCategories(categories) == [i \in 1..Len(categories) |-> CategoryInfo(categories[i])]

RECURSIVE Flat(_, _)
Flat(arrays, g) ==
    IF g > Len(arrays) THEN <<>> ELSE arrays[g] \o Flat(arrays, g + 1)

\* the list with one entry per category id
RECURSIVE DedupById(_)
DedupById(infos) ==
    IF Len(infos) = 0 THEN <<>>
    ELSE LET front == SubSeq(infos, 1, Len(infos) - 1)
             last == infos[Len(infos)]
         IN  IF \E j \in 1..Len(front) : front[j].id = last.id
             THEN DedupById(front)
             ELSE Append(DedupById(front), last)

categoriesInfo_Dedup(categoryGroups) ==
    DedupById(Flat([g \in 1..Len(categoryGroups) |->
                      MapCategories(categoryGroups[g].categories)], 1))

categoriesInfo(categoryGroups) ==
    Flat([g \in 1..Len(categoryGroups) |-> MapCategories(categoryGroups[g].categories)], 1)

\* a failed validation answered with the groups that do validate
CategoriesRespond_Partial(budgetDataRaw) ==
    IF budgetDataRaw.kind = "thrown"
    THEN << Response(500, [error |-> <<"Failed to fetch categories">>]) >>
    ELSE IF budgetDataRaw.kind = "object"
            /\ Key(budgetDataRaw, "categoryGroups").kind = "array"
    THEN << Response(200,
               [categories |-> categoriesInfo(
                   [i \in 1..Len(SelectSeq(budgetDataRaw.val.categoryGroups.val,
                                           CategoryGroupSchema)) |->
                       CategoryGroupData(SelectSeq(budgetDataRaw.val.categoryGroups.val,
                                                   CategoryGroupSchema)[i])])]) >>
    ELSE << Response(500, [error |-> <<"Invalid budget data received from API">>]) >>

CategoriesRespond(budgetDataRaw) ==
    IF budgetDataRaw.kind = "thrown"
    THEN << Response(500, [error |-> <<"Failed to fetch categories">>]) >>
    ELSE IF ~BudgetMonthSchema(budgetDataRaw)
    THEN << Response(500, [error |-> <<"Invalid budget data received from API">>]) >>
    ELSE << Response(200,
               [categories |-> categoriesInfo(BudgetMonthData(budgetDataRaw).categoryGroups)]) >>

(***************************************************************************)
(* POST /api/transaction                                                   *)
(***************************************************************************)
\* the object handed to addTransactions
Transaction(transactionData) ==
    [account |-> transactionData.val.accountId.val,
     date |-> transactionData.val.date.val,
     notes |-> transactionData.val.description.val,
     amount |-> amountToInteger(transactionData.val.amount.val),
     category |-> transactionData.val.categoryId.val,
     cleared |-> TRUE]

ValidationFailed(body) ==
    Response(400, [success |-> FALSE, message |-> "Validation failed",
                   errors |-> CreateTransactionIssues(body)])

\* the calls to the collaborator the handler makes for a body
TransactionCalls(body, phase) ==
    IF CreateTransactionRequestSchema(body)
    THEN << [op |-> "addTransactions", phase |-> phase,
             accountId |-> body.val.accountId.val,
             transactions |-> << Transaction(body) >>] >>
    ELSE <<>>

TransactionRespond(outcome) ==
    IF outcome.kind = "thrown"
    THEN << Response(500, [success |-> FALSE, message |-> "Failed to create transaction"]) >>
    ELSE << Response(201, [success |-> TRUE, message |-> "Transaction created successfully"]) >>

(***************************************************************************)
(* The inputs: what the environment, the clients and the collaborator      *)
(* can hand to the program.                                                *)
(***************************************************************************)
EnvNames ==
    {"ACTUAL_DATA_DIR", "ACTUAL_PASSWORD", "ACTUAL_SERVER_URL", "ACTUAL_SYNC_ID",
     "ACTUAL_BUDGET_ENCRYPTION_KEY"}

Rent == <<"R", "e", "n", "t">>
rent == <<"r", "e", "n", "t">>
RENT == <<"R", "E", "N", "T">>
rEnT == <<"r", "E", "n", "T">>
Gas == <<"G", "a", "s">>

RawExpense(id, name, budgeted, spent, balance) ==
    Obj([id |-> Str(id), name |-> Str(name), is_income |-> Bool(FALSE),
         hidden |-> Bool(FALSE), budgeted |-> Num(budgeted), spent |-> Num(spent),
         balance |-> Num(balance)])

RawIncome(id, name, received) ==
    Obj([id |-> Str(id), name |-> Str(name), is_income |-> Bool(TRUE),
         hidden |-> Bool(FALSE), received |-> Num(received)])

ExpRent == RawExpense("c1", Rent, 100000, -98750, 1250)
ExpRentLower == RawExpense("c2", rent, 0, -5, -5)
\* an income category that also carries a key of the expense shape
IncRent == Obj(With(RawIncome("c3", RENT, 5000).val, "budgeted", Num(0)))
\* an income category without its received
BadIncome == Obj(Without(RawIncome("c4", Gas, 0).val, "received"))

RawCategories == {ExpRent, ExpRentLower, IncRent, BadIncome}

RawGroup(categories) ==
    Obj([id |-> Str("g1"), name |-> Str(<<"F", "i", "x", "e", "d">>),
         categories |-> Arr(categories)])

RawMonth(groups) ==
    Obj([f \in BudgetTotals \cup {"month", "categoryGroups"} |->
            IF f = "month" THEN Str(<<"2", "0", "2", "4", "-", "0", "1">>)
            ELSE IF f = "categoryGroups" THEN Arr(groups)
            ELSE Num(0)])

\* the sequences of at most n elements of S
SeqsUpTo(S, n) == UNION {[1..k -> S] : k \in 0..n}

\* cs cut into k consecutive groups, the i-th ending at cut[i]
Cuts(cs, k) ==
    {cut \in [1..k -> 0..Len(cs)] :
        /\ cut[k] = Len(cs)
        /\ \A i \in 1..(k - 1) : cut[i] <= cut[i + 1]}

GroupsOf(cs, k, cut) ==
    [i \in 1..k |-> RawGroup(SubSeq(cs, (IF i = 1 THEN 0 ELSE cut[i - 1]) + 1, cut[i]))]

\* every month of at most MaxGroups groups holding at most MaxCategories categories
EnumeratedMonths ==
    {RawMonth(<<>>)} \cup
    {RawMonth(GroupsOf(m.cs, m.k, m.cut)) :
        m \in UNION {UNION {{[cs |-> cs, k |-> k, cut |-> cut] : cut \in Cuts(cs, k)} :
                            k \in 1..MaxGroups} :
                     cs \in SeqsUpTo(RawCategories, MaxCategories)}}

\* other ways for the collaborator's data to be off, each next to a well-formed category
SpecialMonths ==
    {Undefined,
     Obj(Without(RawMonth(<<RawGroup(<<ExpRent>>)>>).val, "toBudget")),
     Obj(With(RawMonth(<<RawGroup(<<ExpRent>>)>>).val, "month", Num(202401))),
     RawMonth(<<RawGroup(<<ExpRent>>), Obj(Without(RawGroup(<<ExpRent>>).val, "name"))>>),
     RawMonth(<<RawGroup(<<ExpRent>>), Obj(With(RawGroup(<<>>).val, "categories", Undefined))>>),
     RawMonth(<<RawGroup(<<ExpRent, Obj(With(ExpRentLower.val, "balance", Str(<<"5">>)))>>)>>),
     RawMonth(<<RawGroup(<<Obj(With(ExpRentLower.val, "is_income", Str(<<"n", "o">>))), ExpRent>>)>>),
     RawMonth(<<RawGroup(<<ExpRent>>), RawGroup(<<Obj(Without(ExpRent.val, "is_income"))>>)>>),
     RawMonth(<<RawGroup(<<ExpRent, Undefined>>)>>)}

BudgetMonthResults == EnumeratedMonths \cup SpecialMonths \cup {Thrown}

RawAccount(id, closed) ==
    Obj([id |-> Str(id), name |-> Str(<<"C", "h", "k">>), type |-> Str("checking"),
         balance |-> Num(12345), offbudget |-> Bool(FALSE), closed |-> Bool(closed)])

RawAccounts ==
    {RawAccount("a1", FALSE),
     Obj(With(RawAccount("a2", TRUE).val, "note", Str(<<"x">>))),
     Obj(With(RawAccount("a3", FALSE).val, "balance", Str(<<"1">>)))}

AccountsResults ==
    {Arr(as) : as \in SeqsUpTo(RawAccounts, MaxAccounts)} \cup {Undefined, Thrown}

\* req.query.categoryName: absent, empty, repeated (an array), or a name
QueryValues == {Undefined, Str(<<>>), Arr(<<Str(Rent), Str(Gas)>>), Str(rEnT), Str(Gas)}

Absent == [kind |-> "absent"]

Date20240115 == <<"2", "0", "2", "4", "-", "0", "1", "-", "1", "5">>
Date20241340 == <<"2", "0", "2", "4", "-", "1", "3", "-", "4", "0">>
DateSlashes == <<"2", "0", "2", "4", "/", "0", "1", "/", "1", "5">>
DateShort == <<"2", "0", "2", "4", "-", "1", "-", "5">>

BodyOptions ==
    [accountId : {Str(<<"a", "1">>), Str(<<>>), Absent},
     date : {Str(Date20240115), Str(Date20241340), Str(DateSlashes), Str(DateShort), Num(20240115)},
     description : {Str(<<"t", "e", "a">>), Str(<<>>)},
     amount : {Num(12500), Num(-1005), NaN, Infinity, Str(<<"5">>)},
     categoryId : {Str(<<"c", "1">>), Str(<<>>)}]

BodyOf(o) == Obj([k \in {f \in DOMAIN o : o[f] # Absent} |-> o[k]])

\* req.body: an object, or undefined when no JSON body was sent
Bodies == {BodyOf(o) : o \in BodyOptions} \cup {Undefined}

(***************************************************************************)
(* The program.                                                            *)
(***************************************************************************)
NoConversion == [pc |-> "idle", minor |-> 0, amount |-> 0, back |-> 0]

Init ==
    /\ startup = "start"
    /\ listening = FALSE
    /\ route = "none"
    /\ pc = "idle"
    /\ input = Undefined
    /\ collab = <<>>
    /\ raw = Undefined
    /\ categoryBudget = Undefined
    /\ responses = <<>>
    /\ conv = NoConversion

\* process.exit(1): the process and every request it was serving are gone
Exit ==
    /\ startup' = "exited"
    /\ listening' = FALSE
    /\ route' = "none"
    /\ pc' = "idle"
    /\ input' = Undefined
    /\ collab' = <<>>
    /\ raw' = Undefined
    /\ categoryBudget' = Undefined
    /\ responses' = <<>>
    /\ UNCHANGED conv

\* for (const [key, value] of Object.entries(envVars)) if (!value) process.exit(1)
getEnvironmentVariables(env) == EnvNames \ {"ACTUAL_DATA_DIR"} \subseteq env

\* Loading the module: the IIFE runs to its first await, the routes are
\* registered and app.listen is called.
Load ==
    /\ startup = "start"
    /\ \E env \in SUBSET EnvNames :
          IF getEnvironmentVariables(env)
          THEN /\ startup' = "init"
               /\ listening' = TRUE
               /\ UNCHANGED <<route, pc, input, collab, raw, categoryBudget, responses, conv>>
          ELSE Exit

InitResolves ==
    /\ startup = "init"
    /\ startup' = "download"
    /\ UNCHANGED <<listening, route, pc, input, collab, raw, categoryBudget, responses, conv>>

InitRejects == startup = "init" /\ Exit

DownloadResolves ==
    /\ startup = "download"
    /\ startup' = "ready"
    /\ UNCHANGED <<listening, route, pc, input, collab, raw, categoryBudget, responses, conv>>

DownloadRejects == startup = "download" /\ Exit

\* a request reaches a handler when the server listens and serves no other
Accepting == listening /\ pc = "idle"

Call(op) == << [op |-> op, phase |-> startup] >>

AccountsRequest ==
    /\ Accepting
    /\ route' = "accounts"
    /\ input' = Undefined
    /\ collab' = Call("getAccounts")
    /\ pc' = "awaiting"
    /\ UNCHANGED <<startup, listening, raw, categoryBudget, responses, conv>>

AccountsReturn ==
    /\ route = "accounts" /\ pc = "awaiting"
    /\ \E accountsData \in AccountsResults :
          /\ raw' = accountsData
          /\ responses' = responses \o AccountsRespond(accountsData)
    /\ pc' = "done"
    /\ UNCHANGED <<startup, listening, route, input, collab, categoryBudget, conv>>

\* if (!categoryName || typeof categoryName !== 'string') 400
categoryNameOk(categoryName) == categoryName.kind = "string" /\ Len(categoryName.val) > 0

BudgetRequest ==
    /\ Accepting
    /\ route' = "budget"
    /\ \E categoryName \in QueryValues :
          /\ input' = categoryName
          /\ IF categoryNameOk(categoryName)
             THEN /\ collab' = Call("getBudgetMonth")
                  /\ pc' = "awaiting"
                  /\ UNCHANGED responses
             ELSE /\ responses' =
                       << Response(400, [error |->
                            <<"category query parameter is required and must be a string">>]) >>
                  /\ pc' = "done"
                  /\ UNCHANGED collab
    /\ UNCHANGED <<startup, listening, raw, categoryBudget, conv>>

BudgetReturn ==
    /\ route = "budget" /\ pc = "awaiting"
    /\ \E budgetDataRaw \in BudgetMonthResults :
          /\ raw' = budgetDataRaw
          /\ categoryBudget' = BudgetScan(input.val, budgetDataRaw)
          /\ responses' = responses \o BudgetRespond(input.val, budgetDataRaw)
    /\ pc' = "done"
    /\ UNCHANGED <<startup, listening, route, input, collab, conv>>

CategoriesRequest ==
    /\ Accepting
    /\ route' = "categories"
    /\ input' = Undefined
    /\ collab' = Call("getBudgetMonth")
    /\ pc' = "awaiting"
    /\ UNCHANGED <<startup, listening, raw, categoryBudget, responses, conv>>

CategoriesReturn ==
    /\ route = "categories" /\ pc = "awaiting"
    /\ \E budgetDataRaw \in BudgetMonthResults :
          /\ raw' = budgetDataRaw
          /\ responses' = responses \o CategoriesRespond(budgetDataRaw)
    /\ pc' = "done"
    /\ UNCHANGED <<startup, listening, route, input, collab, categoryBudget, conv>>

TransactionRequest ==
    /\ Accepting
    /\ route' = "transaction"
    /\ \E body \in Bodies :
          /\ input' = body
          /\ collab' = TransactionCalls(body, startup)
          /\ IF CreateTransactionRequestSchema(body)
             THEN pc' = "awaiting" /\ UNCHANGED responses
             ELSE pc' = "done" /\ responses' = << ValidationFailed(body) >>
    /\ UNCHANGED <<startup, listening, raw, categoryBudget, conv>>

TransactionReturn ==
    /\ route = "transaction" /\ pc = "awaiting"
    /\ \E outcome \in {Undefined, Thrown} :
          /\ raw' = outcome
          /\ responses' = responses \o TransactionRespond(outcome)
    /\ pc' = "done"
    /\ UNCHANGED <<startup, listening, route, input, collab, categoryBudget, conv>>

\* the request is over; nothing of it is kept
Complete ==
    /\ pc = "done"
    /\ route' = "none"
    /\ pc' = "idle"
    /\ input' = Undefined
    /\ collab' = <<>>
    /\ raw' = Undefined
    /\ categoryBudget' = Undefined
    /\ responses' = <<>>
    /\ UNCHANGED <<startup, listening, conv>>

Next ==
    \/ Load
    \/ InitResolves
    \/ InitRejects
    \/ DownloadResolves
    \/ DownloadRejects
    \/ AccountsRequest
    \/ AccountsReturn
    \/ BudgetRequest
    \/ BudgetReturn
    \/ CategoriesRequest
    \/ CategoriesReturn
    \/ TransactionRequest
    \/ TransactionReturn
    \/ Complete

Spec == Init /\ [][Next]_vars

(***************************************************************************)
(* The amount conversion on its own: minor units to an amount and back.    *)
(***************************************************************************)
InitAmount ==
    /\ startup = "start"
    /\ listening = FALSE
    /\ route = "none"
    /\ pc = "idle"
    /\ input = Undefined
    /\ collab = <<>>
    /\ raw = Undefined
    /\ categoryBudget = Undefined
    /\ responses = <<>>
    /\ \E x \in -MaxMinor..MaxMinor : conv = [NoConversion EXCEPT !.pc = "minor", !.minor = x]

ToAmount ==
    /\ conv.pc = "minor"
    /\ conv' = [conv EXCEPT !.pc = "amount", !.amount = integerToAmount(conv.minor)]
    /\ UNCHANGED <<startup, listening, route, pc, input, collab, raw, categoryBudget, responses>>

ToInteger ==
    /\ conv.pc = "amount"
    /\ conv' = [conv EXCEPT !.pc = "back", !.back = amountToInteger(conv.amount)]
    /\ UNCHANGED <<startup, listening, route, pc, input, collab, raw, categoryBudget, responses>>

NextAmount == ToAmount \/ ToInteger

SpecAmount == InitAmount /\ [][NextAmount]_vars

(***************************************************************************)
(* Vocabulary of the properties, stated on the collaborator's data as it   *)
(* arrived and on the request as it was sent.                              *)
(***************************************************************************)
Status == responses[1].status

BudgetValidated == raw.kind = "object" /\ BudgetMonthSchema(raw)

\* the places <<group, category>> of a month whose groups hold category arrays
Positions(m) ==
    {p \in (1..Len(m.val.categoryGroups.val)) \X (1..MaxCategories) :
        p[2] <= Len(m.val.categoryGroups.val[p[1]].val.categories.val)}

CatAt(m, p) == m.val.categoryGroups.val[p[1]].val.categories.val[p[2]]

\* group order, then category order within the group
Before(p, q) == p[1] < q[1] \/ (p[1] = q[1] /\ p[2] < q[2])

SameLetter(a, b) ==
    \/ a = b
    \/ a \in DOMAIN UpperToLower /\ UpperToLower[a] = b
    \/ b \in DOMAIN UpperToLower /\ UpperToLower[b] = a

EqualIgnoringCase(s, t) ==
    Len(s) = Len(t) /\ \A i \in 1..Len(s) : SameLetter(s[i], t[i])

Matching(m, name) ==
    {p \in Positions(m) : EqualIgnoringCase(CatAt(m, p).val.name.val, name)}

IsFirstMatch(m, name, p) ==
    p \in Matching(m, name) /\ \A q \in Matching(m, name) : q = p \/ Before(p, q)

IsIncome(c) == c.val.is_income.val

\* the number of categories in the groups before group g
RECURSIVE CategoriesBefore(_, _)
CategoriesBefore(m, g) ==
    IF g <= 1 THEN 0
    ELSE CategoriesBefore(m, g - 1)
         + Len(m.val.categoryGroups.val[g - 1].val.categories.val)

YearMonthDayShape(s) ==
    /\ Len(s) = 10
    /\ s[5] = "-" /\ s[8] = "-"
    /\ {s[i] : i \in {1, 2, 3, 4, 6, 7, 9, 10}} \subseteq Digits

NonEmptyString(o, f) ==
    f \in DOMAIN o.val /\ o.val[f].kind = "string" /\ o.val[f].val # <<>>

FiniteAmount(o) ==
    "amount" \in DOMAIN o.val /\ o.val.amount.kind = "number" /\ "val" \in DOMAIN o.val.amount

DateShaped(o) ==
    "date" \in DOMAIN o.val /\ o.val.date.kind = "string" /\ YearMonthDayShape(o.val.date.val)

\* the body fails CreateTransactionRequestSchema
BodyFails(body) ==
    \/ body.kind # "object"
    \/ ~NonEmptyString(body, "accountId")
    \/ ~NonEmptyString(body, "description")
    \/ ~NonEmptyString(body, "categoryId")
    \/ ~DateShaped(body)
    \/ ~FiniteAmount(body)

\* C1: a POST /api/transaction whose body fails the request schema never
\* reaches addTransactions, and its response is a 400.
C1_RejectedBeforeCollaborator ==
    (route = "transaction" /\ BodyFails(input)) =>
        /\ collab = <<>>
        /\ pc = "done"
        /\ Len(responses) = 1 /\ Status = 400

C1_Witness ==
    /\ route = "transaction" /\ pc = "done"
    /\ input.kind = "object"
    /\ "amount" \in DOMAIN input.val /\ input.val.amount = Infinity
    /\ NonEmptyString(input, "accountId") /\ NonEmptyString(input, "description")
    /\ NonEmptyString(input, "categoryId") /\ DateShaped(input)
    /\ Status = 400

\* C2: in GET /api/budget on a validated month, the scan yields the first
\* category, by group order and then category order, whose name equals the
\* requested name ignoring case, and nothing when no category matches.
C2_FirstMatchInOrder ==
    (route = "budget" /\ pc = "done" /\ BudgetValidated) =>
        IF Matching(raw, input.val) = {}
        THEN categoryBudget.kind = "undefined"
        ELSE \E p \in Matching(raw, input.val) :
                /\ IsFirstMatch(raw, input.val, p)
                /\ categoryBudget = CategoryZData(CatAt(raw, p))

C2_Witness ==
    /\ route = "budget" /\ pc = "done" /\ BudgetValidated
    /\ \E p, q \in Matching(raw, input.val) :
          /\ p[1] < q[1]
          /\ CatAt(raw, p).val.id # CatAt(raw, q).val.id
          /\ CatAt(raw, p).val.name # CatAt(raw, q).val.name
          /\ IsFirstMatch(raw, input.val, p)
          /\ categoryBudget = CategoryZData(CatAt(raw, p))

\* C3 as stated: on a validated month the response is a 404 exactly when the
\* name matches no category or matches income categories only.
C3_AsStated ==
    (route = "budget" /\ pc = "done" /\ BudgetValidated) =>
        (Status = 404 <=> \A p \in Matching(raw, input.val) : IsIncome(CatAt(raw, p)))

\* C3 amended: on a validated month the response is a 404 naming the
\* requested category exactly when the name matches no category or the first
\* match in group-then-category order is an income category; otherwise it
\* is a 200.
C3_FirstMatchDecides ==
    (route = "budget" /\ pc = "done" /\ BudgetValidated) =>
        LET ineligible ==
                \A p \in Matching(raw, input.val) :
                    IsFirstMatch(raw, input.val, p) => IsIncome(CatAt(raw, p))
        IN  /\ Len(responses) = 1
            /\ Status = 404 <=> ineligible
            /\ Status = 200 <=> ~ineligible
            /\ Status = 404 => responses[1].body.error[2] = input.val

C3_Witness ==
    /\ route = "budget" /\ pc = "done" /\ BudgetValidated
    /\ \E p, q \in Matching(raw, input.val) :
          /\ IsFirstMatch(raw, input.val, p)
          /\ IsIncome(CatAt(raw, p))
          /\ ~IsIncome(CatAt(raw, q))
    /\ Status = 404

\* the validated months in which no category has the name
NotPresentMonths(name) ==
    {m \in EnumeratedMonths : BudgetMonthSchema(m) /\ Matching(m, name) = {}}

OnlyIncomeMatches ==
    /\ route = "budget" /\ pc = "done" /\ BudgetValidated
    /\ Matching(raw, input.val) # {}
    /\ \A p \in Matching(raw, input.val) : IsIncome(CatAt(raw, p))

\* C4 as stated: the failure for a name that only income categories carry
\* differs from the failure for the same name present in no group.
C4_AsStated ==
    OnlyIncomeMatches =>
        \A m \in NotPresentMonths(input.val) : BudgetRespond(input.val, m) # responses

\* C4 amended: the failure for a name that only income categories carry is
\* the failure for the same name present in no group: a 404 with the same
\* error payload naming the requested category.
C4_SameFailure ==
    OnlyIncomeMatches =>
        /\ Len(responses) = 1 /\ Status = 404
        /\ \A m \in NotPresentMonths(input.val) : BudgetRespond(input.val, m) = responses

C4_Witness ==
    /\ OnlyIncomeMatches
    /\ NotPresentMonths(input.val) # {}
    /\ Status = 404

\* C5: on a validated month the list of GET /api/categories has one element
\* per category of every group, the element at a category's place in
\* group-then-category order being that category's projection.
C5_ProjectionKeepsAll ==
    (route = "categories" /\ pc = "done" /\ BudgetValidated) =>
        LET out == responses[1].body.categories
        IN  /\ Len(out) = Cardinality(Positions(raw))
            /\ \A p \in Positions(raw) :
                  out[CategoriesBefore(raw, p[1]) + p[2]]
                      = CategoryInfo(CategoryZData(CatAt(raw, p)))

C5_Witness ==
    /\ route = "categories" /\ pc = "done" /\ BudgetValidated
    /\ \E p, q \in Positions(raw) :
          /\ p[1] < q[1]
          /\ CatAt(raw, p) = CatAt(raw, q)
    /\ \E p, q \in Positions(raw) :
          /\ p[1] = q[1] /\ p[2] < q[2]
          /\ CatAt(raw, p) # CatAt(raw, q)
    /\ Len(responses[1].body.categories) >= 3

\* C6: converting minor units to an amount and the amount back to minor
\* units gives the minor units started from.
C6_RoundTrip == conv.pc = "back" => conv.back = conv.minor

C6_Witness ==
    /\ conv.pc = "back"
    /\ conv.minor < -100
    /\ conv.minor % 100 # 0
    /\ conv.amount # conv.minor
    /\ conv.back = conv.minor

\* the category the budget scan must settle on is missing or an income category
Ineligible(m, name) ==
    \A p \in Matching(m, name) : IsFirstMatch(m, name, p) => IsIncome(CatAt(m, p))

\* the status each case of a finished request calls for
ExpectedStatus ==
    CASE route = "accounts" ->
            IF raw.kind = "thrown" \/ ~AccountArray(raw) THEN 500 ELSE 200
      [] route = "budget" ->
            IF input.kind # "string" \/ input.val = <<>> THEN 400
            ELSE IF raw.kind = "thrown" \/ ~BudgetMonthSchema(raw) THEN 500
            ELSE IF Ineligible(raw, input.val) THEN 404
            ELSE 200
      [] route = "categories" ->
            IF raw.kind = "thrown" \/ ~BudgetMonthSchema(raw) THEN 500 ELSE 200
      [] route = "transaction" ->
            IF BodyFails(input) THEN 400
            ELSE IF raw.kind = "thrown" THEN 500
            ELSE 201

\* C7: a handler sends no response before it is done and exactly one by the
\* time it is done, whatever the collaborator returned or threw: a 500 for
\* malformed collaborator data or a throwing call, a 400 for invalid client
\* input, a 404 for no eligible category, a success status otherwise.
C7_ExactlyOneResponse ==
    /\ pc # "done" => responses = <<>>
    /\ pc = "done" => Len(responses) = 1 /\ Status = ExpectedStatus

C7_Witness ==
    /\ pc = "done"
    /\ route = "accounts"
    /\ raw.kind = "array" /\ ~AccountArray(raw) /\ \E i \in 1..Len(raw.val) : Account(raw.val[i])
    /\ Len(responses) = 1 /\ Status = 500

RequiredKinds(isIncome) ==
    IF isIncome
    THEN [id |-> "string", name |-> "string", hidden |-> "boolean", received |-> "number"]
    ELSE [id |-> "string", name |-> "string", hidden |-> "boolean", budgeted |-> "number",
          spent |-> "number", balance |-> "number"]

\* wrong type, or a field its is_income variant requires is missing or mistyped
MalformedCategory(c) ==
    \/ c.kind # "object"
    \/ "is_income" \notin DOMAIN c.val
    \/ c.val.is_income.kind # "boolean"
    \/ \E f \in DOMAIN RequiredKinds(c.val.is_income.val) :
          \/ f \notin DOMAIN c.val
          \/ c.val[f].kind # RequiredKinds(c.val.is_income.val)[f]

MalformedGroup(g) ==
    \/ g.kind # "object"
    \/ \E f \in {"id", "name"} : f \notin DOMAIN g.val \/ g.val[f].kind # "string"
    \/ "categories" \notin DOMAIN g.val
    \/ g.val.categories.kind # "array"
    \/ \E k \in 1..Len(g.val.categories.val) : MalformedCategory(g.val.categories.val[k])

WellFormedCategoryIn(g) ==
    /\ g.kind = "object" /\ "categories" \in DOMAIN g.val /\ g.val.categories.kind = "array"
    /\ \E k \in 1..Len(g.val.categories.val) : ~MalformedCategory(g.val.categories.val[k])

HasMalformedPart(m) ==
    /\ m.kind = "object"
    /\ "categoryGroups" \in DOMAIN m.val
    /\ m.val.categoryGroups.kind = "array"
    /\ \E g \in 1..Len(m.val.categoryGroups.val) : MalformedGroup(m.val.categoryGroups.val[g])

InvalidBudgetData ==
    << Response(500, [error |-> <<"Invalid budget data received from API">>]) >>

\* C8: one malformed group or category anywhere in the collaborator's month
\* makes GET /api/budget and GET /api/categories answer 500 with the
\* invalid-data error and with no category's data.
C8_AllOrNothing ==
    (route \in {"budget", "categories"} /\ pc = "done" /\ HasMalformedPart(raw)) =>
        /\ responses = InvalidBudgetData
        /\ categoryBudget.kind = "undefined"

C8_Witness ==
    /\ route = "categories" /\ pc = "done"
    /\ HasMalformedPart(raw)
    /\ \E g \in 1..Len(raw.val.categoryGroups.val) :
          WellFormedCategoryIn(raw.val.categoryGroups.val[g])
    /\ responses = InvalidBudgetData

\* a transaction request valid in every field, dated 2024-13-40
Dated20241340 ==
    /\ route = "transaction"
    /\ input.kind = "object"
    /\ NonEmptyString(input, "accountId") /\ NonEmptyString(input, "description")
    /\ NonEmptyString(input, "categoryId") /\ FiniteAmount(input)
    /\ "date" \in DOMAIN input.val /\ input.val.date = Str(Date20241340)

\* C9 as stated: a request dated 2024-13-40, valid otherwise, is rejected
\* with a 400 and not submitted to the collaborator.
C9_AsStated ==
    Dated20241340 => collab = <<>> /\ pc = "done" /\ Status = 400

\* C9 amended: a request dated 2024-13-40, valid otherwise, passes the date
\* pattern, which checks the shape only: it is submitted to addTransactions
\* with that date and is not answered with a 400.
C9_ShapeOnly ==
    Dated20241340 =>
        /\ Len(collab) = 1
        /\ collab[1].op = "addTransactions"
        /\ collab[1].transactions[1].date = Date20241340
        /\ pc = "done" => Len(responses) = 1 /\ Status \in {201, 500}

C9_Witness == Dated20241340 /\ pc = "done" /\ Len(collab) = 1 /\ Status = 201

\* C10: no handler calls the collaborator before init and downloadBudget
\* have both completed.
C10_NoCallBeforeStartupDone ==
    \A i \in 1..Len(collab) : collab[i].phase = "ready"

====
